---- MODULE Spec2Model ----
(***************************************************************************)
(* Model of the resolve pipeline of the TubeAPI server:                    *)
(*   - FastCache (server/cache.ts), the in-memory cache;                   *)
(*   - DatabaseStorage download rows (storage.ts, shared/schema.ts);       *)
(*   - GET /api/song/:videoId (server/routes.ts) with its background       *)
(*     Telegram upload (Spec; SpecUnique with a unique index on the table, *)
(*     SpecFault with store reads that throw);                             *)
(*   - GET /api/video/:videoId (SpecVideo);                                *)
(*   - GET /api/stream/:videoId/:format next to the song route             *)
(*     (SpecStream);                                                       *)
(*   - FastCache driven on its own, with a running clock (SpecCache);      *)
(*   - YouTubeService.downloadSongViaAPI on its own (SpecFetch);           *)
(*   - rateLimitByApiKey on its own, with a running clock (SpecRate).      *)
(* The code between two awaits runs atomically (single JavaScript thread). *)
(* A step of the model ends at an await on the store, the cache or the     *)
(* Telegram channel; a store call takes effect when its await resumes.     *)
(* The return of a call that touches no shared state (yt-dlp, the          *)
(* third-party API) is taken together with the store call that follows it. *)
(***************************************************************************)
EXTENDS Integers, Sequences, FiniteSets, TLC

\* ------------------------------------------------------------------ bounds
\* total number of requests started in a behaviour
MaxStarts == 3
\* the clock (Date.now()) runs from 0 to MaxTime
MaxTime == 2
\* FastCache.maxSize and FastCache.ttl, scaled down (1000 entries, 24 h)
maxSize == 3
ttl == 1
\* API_KEY_LIMIT and RATE_LIMIT_WINDOW of the rate limiter, scaled down
\* (10 requests, 60 000 ms), and the last clock reading of its runs
API_KEY_LIMIT == 2
RATE_LIMIT_WINDOW == 2
MaxRateTime == 3
\* apiKeys.usageLimit of the keys in the table, scaled down (default 1000)
UsageLimit == 2

\* ------------------------------------------------------------- value sets
\* null / undefined of a string-valued field
NULL == "null"
\* video ids in the order in which they are first requested
VideoOrder == <<"K1", "K2">>
VideoIds == {VideoOrder[i] : i \in 1..Len(VideoOrder)}
\* titles that yt-dlp reports (already sanitized, never empty), in the
\* order in which they are first reported
TitleOrder == <<"T1", "T2">>
Titles == {TitleOrder[i] : i \in 1..Len(TitleOrder)}
\* direct URL handed out by the third-party API
OriginUrls == {"o1"}
\* file path that Telegram's getFile hands out for a file id
TelegramUrls == {"t1"}
\* the handlers that run at the same time (slots, reused by later requests)
Reqs == {1, 2}
\* req.apiKey.key of the requests that reach the rate limiter
ApiKeys == {"a1", "a2"}
\* video ids used when FastCache is driven on its own: one more than fits
CacheKeyOrder == <<"K1", "K2", "K3", "K4", "K5">>
CacheVideoIds == {CacheKeyOrder[i] : i \in 1..(maxSize + 1)}
\* the title of the items set when FastCache is driven on its own
CacheTitles == {TitleOrder[1]}

VARIABLES
  cache,      \* FastCache.cache: entries in Map insertion order
  now,        \* Date.now()
  lastGet,    \* the FastCache.get call of the last step: key, time, entry
              \* found, result (NoGet when the last step was no get)
  downloads,  \* rows of table downloads, row id = index
  pc,         \* per request slot: the await the handler is suspended at
  req,        \* per request slot: the handler's local variables
  res,        \* per request slot: the response sent (code 0: none yet)
  bg,         \* per request slot: position of the setImmediate upload task
  hist,       \* counters of collaborator calls and request history
  fetch,      \* the running call of YouTubeService.downloadSongViaAPI
  apiKeyLimits,  \* the Map of rateLimitByApiKey: key -> <<>> or <<limit>>
  apiKeysTable   \* rows of table api_keys, by key

vars ==
  <<cache, now, lastGet, downloads, pc, req, res, bg, hist, fetch,
    apiKeyLimits, apiKeysTable>>

\* ------------------------------------------------------------- FastCache
\* const key = `${videoId}_${format}`
CacheKey(videoId, format) == <<videoId, format>>

\* position of key in the Map, 0 when absent
IndexOfKey(c, key) ==
  IF \E i \in 1..Len(c) : c[i].key = key
  THEN CHOOSE i \in 1..Len(c) : c[i].key = key
  ELSE 0

\* Map.set: an existing key keeps its place, a new key goes last
MapSetMut(c, key, item) ==
  LET e == [key |-> key, title |-> item.title, downloadUrl |-> item.downloadUrl,
            format |-> item.format, timestamp |-> item.timestamp]
  IN Append(SelectSeq(c, LAMBDA x : x.key # key), e)
MapSet(c, key, item) ==
  LET i == IndexOfKey(c, key)
      e == [key |-> key, title |-> item.title, downloadUrl |-> item.downloadUrl,
            format |-> item.format, timestamp |-> item.timestamp]
  IN IF i = 0 THEN Append(c, e) ELSE [c EXCEPT ![i] = e]

\* Map.delete
MapDeleteMut(c, key) == c
MapDelete(c, key) ==
  LET i == IndexOfKey(c, key)
  IN IF i = 0 THEN c
     ELSE SubSeq(c, 1, i - 1) \o SubSeq(c, i + 1, Len(c))

\* FastCache.set at time t
FastCacheSetMut(c, videoId, format, data, t) ==
  LET key == CacheKey(videoId, format)
      c1 == IF Len(c) >= maxSize /\ Len(c) > 0
            THEN MapDelete(c, c[Len(c)].key)
            ELSE c
  IN MapSet(c1, key, [data EXCEPT !.timestamp = t])
FastCacheSet(c, videoId, format, data, t) ==
  LET key == CacheKey(videoId, format)
      c1 == IF Len(c) >= maxSize /\ Len(c) > 0
            THEN MapDelete(c, c[1].key)
            ELSE c
  IN MapSet(c1, key, [data EXCEPT !.timestamp = t])

\* the expiry test of FastCache.get
ExpiredMut(item, t) == t - item.timestamp >= ttl
Expired(item, t) == t - item.timestamp > ttl

\* cache.ts:39 return item: the Map is not touched
ReturnItemMut(c, i) ==
  [cache |-> Append(SubSeq(c, 1, i - 1) \o SubSeq(c, i + 1, Len(c)), c[i]),
   hit |-> TRUE, item |-> <<c[i]>>]
ReturnItem(c, i) == [cache |-> c, hit |-> TRUE, item |-> <<c[i]>>]

\* FastCache.get at time t: the cache afterwards and the item returned
FastCacheGetMut(c, videoId, format, t) ==
  LET key == CacheKey(videoId, format)
      i == IndexOfKey(c, key)
  IN IF i = 0 THEN [cache |-> c, hit |-> FALSE, item |-> <<>>]
     ELSE IF Expired(c[i], t)
          THEN [cache |-> <<>>, hit |-> FALSE, item |-> <<>>]
          ELSE ReturnItem(c, i)
FastCacheGet(c, videoId, format, t) ==
  LET key == CacheKey(videoId, format)
      i == IndexOfKey(c, key)
  IN IF i = 0 THEN [cache |-> c, hit |-> FALSE, item |-> <<>>]
     ELSE IF Expired(c[i], t)
          THEN [cache |-> MapDelete(c, key), hit |-> FALSE, item |-> <<>>]
          ELSE ReturnItem(c, i)

\* FastCache.clear
FastCacheClear(c) == <<>>

\* FastCache.getStats
GetStats(c) == [size |-> Len(c), maxSize |-> maxSize]

\* a CacheItem as the callers build it
CacheItemMut(title, url, format, t) ==
  [title |-> "Unknown Title", downloadUrl |-> url, format |-> format,
   timestamp |-> t]
CacheItem(title, url, format, t) ==
  [title |-> title, downloadUrl |-> url, format |-> format, timestamp |-> t]

NoGet == [key |-> <<NULL, NULL>>, at |-> 0, found |-> <<>>, hit |-> FALSE, item |-> <<>>]

\* ------------------------------------------------------ DatabaseStorage
\* a row of table downloads with the column defaults of shared/schema.ts
DefaultDownload ==
  [youtubeId |-> NULL, format |-> NULL, status |-> "processing", title |-> NULL,
   downloadUrl |-> NULL, telegramFileId |-> NULL, telegramMessageId |-> NULL,
   fileSize |-> 0]

\* merge of column values into a row (INSERT ... VALUES, UPDATE ... SET)
SetColumns(row, values) ==
  [f \in DOMAIN row |-> IF f \in DOMAIN values THEN values[f] ELSE row[f]]

\* DatabaseStorage.createDownload: the table has no unique index on
\* (youtube_id, format), so the insert always succeeds
CreateDownloadMut(rows, values) ==
  Append([i \in 1..Len(rows) |->
            IF rows[i].youtubeId = values.youtubeId
            THEN SetColumns(DefaultDownload, values) ELSE rows[i]],
         SetColumns(DefaultDownload, values))
CreateDownload(rows, values) == Append(rows, SetColumns(DefaultDownload, values))

\* DatabaseStorage.updateDownload: UPDATE ... SET ... WHERE id = $id
UpdateDownloadMut(rows, id, updates) ==
  [i \in 1..Len(rows) |-> SetColumns(rows[i], updates)]
UpdateDownload(rows, id, updates) ==
  [rows EXCEPT ![id] = SetColumns(rows[id], updates)]

\* DatabaseStorage.getDownloadByYoutubeId: the ids of the rows that the
\* WHERE clause selects; the caller takes one of them (no ORDER BY)
GetDownloadByYoutubeId(rows, videoId, format) ==
  {id \in 1..Len(rows) : /\ rows[id].youtubeId = videoId
                         /\ rows[id].format = format
                         /\ rows[id].status = "completed"}

\* the result of `const [download] = await ...`: <<row>> or <<>>
SelectResults(rows, videoId, format) ==
  LET ids == GetDownloadByYoutubeId(rows, videoId, format)
  IN IF ids = {} THEN {<<>>} ELSE {<<rows[id]>> : id \in ids}

\* x || d of JavaScript for a nullable string
OrDefault(x, d) == IF x = NULL \/ x = "" THEN d ELSE x

\* ------------------------------------------------------------- responses
NoResponse ==
  [code |-> 0, status |-> NULL, title |-> NULL, link |-> NULL, format |-> NULL,
   error |-> NULL, message |-> NULL, videoId |-> NULL]

\* res.json({status: "done", title, link, format, duration})
DoneResponse(title, link, format) ==
  [NoResponse EXCEPT !.code = 200, !.status = "done", !.title = title,
                     !.link = link, !.format = format]

\* res.status(code).json({error})
ErrorResponse(code, error) ==
  [NoResponse EXCEPT !.code = code, !.error = error]

\* ------------------------------------------------------- handler locals
NoLocals ==
  [videoId |-> NULL, format |-> NULL,
   telegramDownload |-> <<>>,      \* row read at routes.ts:138
   download |-> 0,                 \* id of the row created at routes.ts:307
   videoInfo |-> NULL,             \* title from getVideoInfo, NULL for null
   downloadResult |-> [filePath |-> NULL, error |-> NULL],
   telegramFile |-> NULL,          \* file id returned by uploadAudio
   error |-> NULL,                 \* error.message in the handler's catch
   i |-> 0,                        \* store reads made by the loop of
                                   \* routes.ts:272-298
   \* history of the request
   noRecordAtStart |-> FALSE, archivedAtStart |-> FALSE, expectTitle |-> NULL,
   failedAtStart |-> FALSE,        \* the key had a failed row on arrival
   servedBy |-> NULL,              \* the tier that gave the done response
   pendingSeen |-> {},             \* the key's unfinished rows at routes.ts:232
   api |-> NULL,                   \* req.query.api
   apiKey |-> <<>>]                \* req.apiKey: the row authenticateApiKey read
                                   \* (kept until the request answers)

\* file ids that Telegram assigns, one per upload; a request uploads at
\* most once, so the id is told by the row the request created
FileIds == <<"f1", "f2", "f3", "f4", "f5", "f6">>

RowsOf(rows, videoId, format) ==
  {id \in 1..Len(rows) : rows[id].youtubeId = videoId /\ rows[id].format = format}

\* the set calls since the cache was last empty are not on record
Untracked == <<NULL>>

\* the last call of rateLimitByApiKey: its key, the clock, the Map entry it
\* found, whether next() was called and the status code it answered
NoLimitCall ==
  [key |-> NULL, at |-> 0, found |-> <<>>, passed |-> FALSE, code |-> 0]

\* history: requests started (in all, and per key up to "2 or more"), the
\* title of the first done response per key, the video ids of the set
\* calls made on an initially empty cache since construction or clear(),
\* the number of requests that rateLimitByApiKey passed on per key and
\* clock reading, and its last call
InitHist ==
  [started |-> [v \in VideoIds |-> 0],
   doneTitle |-> [v \in VideoIds |-> NULL],
   starts |-> 0,
   inserted |-> <<>>,
   admitted |-> [k \in ApiKeys |-> [t \in 0..MaxRateTime |-> 0]],
   lastLimit |-> NoLimitCall]

\* a row of table api_keys as createApiKey leaves it (schema.ts:28-29)
NewApiKey(k) ==
  [key |-> k, isActive |-> TRUE, usageCount |-> 0, usageLimit |-> UsageLimit]

\* a DownloadResult of YouTubeService: {buffer, isDirect, filePath, error}
DownloadResult(buffer, isDirect, filePath, error) ==
  [buffer |-> buffer, isDirect |-> isDirect, filePath |-> filePath,
   error |-> error]

\* no call of downloadSongViaAPI is running; polls counts the fetch calls
\* of the call, onlyProcessing tells that every answer so far was
\* {status: "processing"}, lastReply is the answer to the last fetch
NoFetch ==
  [pc |-> "idle", videoId |-> NULL, attempt |-> 0, polls |-> 0,
   onlyProcessing |-> TRUE, lastReply |-> <<>>,
   result |-> DownloadResult(FALSE, FALSE, NULL, NULL)]

Init ==
  /\ apiKeyLimits = [k \in ApiKeys |-> <<>>]
  /\ apiKeysTable = [k \in ApiKeys |-> NewApiKey(k)]
  /\ fetch = NoFetch
  /\ cache = <<>>
  /\ now = 0
  /\ lastGet = NoGet
  /\ downloads = <<>>
  /\ pc = [r \in Reqs |-> "idle"]
  /\ req = [r \in Reqs |-> NoLocals]
  /\ res = [r \in Reqs |-> NoResponse]
  /\ bg = [r \in Reqs |-> "none"]
  /\ hist = InitHist

\* ---------------------------------------------------- GET /api/song/:videoId
\* the first done title answered for a key is remembered in hist
NoteResponse(h, videoId, response) ==
  IF response.status = "done" /\ h.doneTitle[videoId] = NULL
  THEN [h EXCEPT !.doneTitle[videoId] = response.title]
  ELSE h

\* return res.json(...) / return res.status(..).json(...)
Send(r, response) ==
  /\ res' = [res EXCEPT ![r] = response]
  /\ pc' = [pc EXCEPT ![r] = "responded"]

\* a slot is free when its handler has responded and its background task
\* has ended
Free(r) ==
  \/ pc[r] = "idle"
  \/ pc[r] = "responded" /\ bg[r] \in {"none", "done"}

\* a request arrives and takes the lowest free slot; the handler runs up to
\* the await of routes.ts:138. Slots and video ids are interchangeable
\* names: the ids are first requested in the order of VideoOrder.
Start(r, videoId) ==
  /\ Free(r)
  /\ \A r2 \in Reqs : r2 < r => ~Free(r2)
  /\ \A i, j \in 1..Len(VideoOrder) :
       (videoId = VideoOrder[i] /\ j < i) => hist.started[VideoOrder[j]] > 0
  /\ hist.starts < MaxStarts
  /\ pc' = [pc EXCEPT ![r] = "tgLookup"]
  /\ req' = [req EXCEPT ![r] =
       [NoLocals EXCEPT
          !.videoId = videoId, !.format = "mp3",
          !.noRecordAtStart = (RowsOf(downloads, videoId, "mp3") = {}),
          !.archivedAtStart =
             (\E id \in RowsOf(downloads, videoId, "mp3") :
                 /\ downloads[id].status = "completed"
                 /\ downloads[id].telegramFileId # NULL),
          !.failedAtStart =
             (\E id \in RowsOf(downloads, videoId, "mp3") :
                 downloads[id].status = "failed"),
          !.expectTitle = hist.doneTitle[videoId]]]
  /\ res' = [res EXCEPT ![r] = NoResponse]
  /\ bg' = [bg EXCEPT ![r] = "none"]
  /\ hist' = [hist EXCEPT !.starts = @ + 1,
                          !.started[videoId] = IF @ < 2 THEN @ + 1 ELSE @]
  /\ UNCHANGED <<cache, now, fetch, apiKeyLimits, apiKeysTable, lastGet, downloads>>

\* STEP 2 (routes.ts:200-229) with the locals rq: memory cache hit answers,
\* a miss issues the read of routes.ts:232
CheckMemoryCacheMut(r, rq) ==
  /\ pc' = [pc EXCEPT ![r] = "dbLookup"]
  /\ req' = [req EXCEPT ![r] = [rq EXCEPT !.telegramDownload = <<>>]]
  /\ UNCHANGED <<cache, now, fetch, lastGet, downloads, res, bg, hist,
                 apiKeyLimits, apiKeysTable>>
CheckMemoryCache(r, rq) ==
  LET g == FastCacheGet(cache, rq.videoId, rq.format, now)
      response == DoneResponse(g.item[1].title, g.item[1].downloadUrl,
                               g.item[1].format)
  IN /\ cache' = g.cache
     /\ IF g.hit
        THEN /\ Send(r, response)
             /\ hist' = NoteResponse(hist, rq.videoId, response)
             /\ req' = [req EXCEPT ![r] = [rq EXCEPT !.telegramDownload = <<>>,
                                                      !.servedBy = "cache"]]
        ELSE /\ pc' = [pc EXCEPT ![r] = "dbLookup"]
             /\ req' = [req EXCEPT ![r] = [rq EXCEPT !.telegramDownload = <<>>]]
             /\ UNCHANGED <<res, hist>>
     /\ UNCHANGED <<now, fetch, apiKeyLimits, apiKeysTable, lastGet, downloads, bg>>

\* routes.ts:140 if (telegramDownload && telegramDownload.telegramFileId &&
\* telegramDownload.status === "completed")
TelegramHit(sel) ==
  sel # <<>> /\ sel[1].telegramFileId # NULL /\ sel[1].status = "completed"

\* routes.ts:234 if (existingDownload && existingDownload.status === "completed")
DbHitMut(sel) ==
  sel # <<>> /\ sel[1].status = "completed" /\ sel[1].telegramFileId = NULL
DbHit(sel) == sel # <<>> /\ sel[1].status = "completed"

\* routes.ts:268 else if (existingDownload && existingDownload.status ===
\* "downloading")
DbInProgress(sel) == sel # <<>> /\ sel[1].status = "downloading"

\* STEP 1 (routes.ts:136-141): the read of routes.ts:138 returns
TgLookup(r) ==
  /\ pc[r] = "tgLookup"
  /\ \E sel \in SelectResults(downloads, req[r].videoId, req[r].format) :
       LET rq == [req[r] EXCEPT !.telegramDownload = sel]
       IN IF TelegramHit(sel)
          THEN /\ pc' = [pc EXCEPT ![r] = "tgGetFile"]
               /\ req' = [req EXCEPT ![r] = rq]
               /\ UNCHANGED <<cache, now, fetch, lastGet, downloads, res, bg, hist,
                              apiKeyLimits, apiKeysTable>>
          ELSE CheckMemoryCache(r, rq)

\* routes.ts:143-198: Telegram's getFile answers (or fails, which is caught)
TgGetFile(r) ==
  /\ pc[r] = "tgGetFile"
  /\ \/ \E url \in TelegramUrls :
          LET td == req[r].telegramDownload[1]
              response == DoneResponse(td.title, url, req[r].format)
          IN /\ cache' = FastCacheSet(cache, req[r].videoId, req[r].format,
                            CacheItem(OrDefault(td.title, "Unknown Title"), url,
                                      req[r].format, now), now)
             /\ Send(r, response)
             /\ hist' = NoteResponse(hist, req[r].videoId, response)
             /\ req' = [req EXCEPT ![r].telegramDownload = <<>>,
                                   ![r].servedBy = "telegram"]
             /\ UNCHANGED <<now, fetch, apiKeyLimits, apiKeysTable, lastGet, downloads, bg>>
     \/ CheckMemoryCache(r, req[r])

\* STEP 3 (routes.ts:231-302): the read of routes.ts:232 returns. The
\* wait loop of routes.ts:268-299 is entered at pc "poll"; the read selects
\* completed rows only, so DbInProgress holds of no row it returns.
DbLookup(r) ==
  /\ pc[r] = "dbLookup"
  /\ \E sel \in SelectResults(downloads, req[r].videoId, req[r].format) :
       IF DbHit(sel)
       THEN LET ed == sel[1]
                response == DoneResponse(ed.title, ed.downloadUrl, ed.format)
            IN /\ cache' = FastCacheSet(cache, req[r].videoId, req[r].format,
                              CacheItem(OrDefault(ed.title, "Unknown Title"),
                                        OrDefault(ed.downloadUrl, ""),
                                        OrDefault(ed.format, "mp3"), now), now)
               /\ Send(r, response)
               /\ hist' = NoteResponse(hist, req[r].videoId, response)
               /\ req' = [req EXCEPT ![r].servedBy = "db"]
               /\ UNCHANGED <<now, fetch, apiKeyLimits, apiKeysTable, lastGet, downloads, bg>>
       ELSE /\ pc' = [pc EXCEPT ![r] =
                  IF DbInProgress(sel) THEN "poll" ELSE "create"]
            /\ req' = [req EXCEPT ![r].pendingSeen =
                         {id \in RowsOf(downloads, req[r].videoId, req[r].format) :
                            downloads[id].status = "processing"}]
            /\ UNCHANGED <<cache, now, fetch, lastGet, downloads, res, bg, hist,
                           apiKeyLimits, apiKeysTable>>

\* routes.ts:304-312: createDownload returns the new row
CreateMut(r) ==
  /\ pc[r] = "create"
  /\ downloads' = CreateDownload(downloads,
                    [youtubeId |-> req[r].videoId, format |-> req[r].format])
  /\ req' = [req EXCEPT ![r].download = 1]
  /\ pc' = [pc EXCEPT ![r] = "getInfo"]
  /\ UNCHANGED <<cache, now, fetch, lastGet, res, bg, hist, apiKeyLimits, apiKeysTable>>
Create(r) ==
  /\ pc[r] = "create"
  /\ downloads' = CreateDownload(downloads,
                    [youtubeId |-> req[r].videoId, format |-> req[r].format])
  /\ req' = [req EXCEPT ![r].download = Len(downloads) + 1]
  /\ pc' = [pc EXCEPT ![r] = "getInfo"]
  /\ UNCHANGED <<cache, now, fetch, lastGet, res, bg, hist, apiKeyLimits, apiKeysTable>>

\* routes.ts:345 and routes.ts:358: the columns written on failure
FailedColumnsMut == [status |-> "error"]
FailedColumns == [status |-> "failed"]

\* routes.ts:342-346: getVideoInfo returns null, the row is marked failed
\* and 404 is answered
MarkNotFound(r) ==
  /\ pc[r] = "getInfo"
  /\ downloads' = UpdateDownload(downloads, req[r].download, FailedColumns)
  /\ Send(r, ErrorResponse(404, "Video not found"))
  /\ req' = [req EXCEPT ![r].pendingSeen = {}]
  /\ UNCHANGED <<cache, now, fetch, lastGet, bg, hist, apiKeyLimits, apiKeysTable>>

\* the titles that occur in the state
UsedTitles ==
  {downloads[id].title : id \in 1..Len(downloads)}
    \cup {req[r].videoInfo : r \in Reqs} \cup {res[r].title : r \in Reqs}
    \cup {cache[i].title : i \in 1..Len(cache)}
    \cup {hist.doneTitle[v] : v \in VideoIds}

\* what getVideoInfo can report: titles are interchangeable names, so a
\* title that has not occurred yet is the first unused one of TitleOrder
NextTitles ==
  {TitleOrder[i] : i \in {k \in 1..Len(TitleOrder) :
                            \A j \in 1..(k - 1) : TitleOrder[j] \in UsedTitles}}

\* routes.ts:342-352: getVideoInfo returns a title and the handler calls
\* downloadSongViaAPI at once
GetInfo(r) ==
  /\ pc[r] = "getInfo"
  /\ \E title \in NextTitles :
       req' = [req EXCEPT ![r].videoInfo = title]
  /\ pc' = [pc EXCEPT ![r] = "fetching"]
  /\ UNCHANGED <<cache, now, fetch, lastGet, downloads, res, bg, hist,
                 apiKeyLimits, apiKeysTable>>

\* what YouTubeService.downloadSongViaAPI can return: a direct URL, an
\* error, or the buffer of a local file (no filePath)
DownloadResults ==
  {[filePath |-> u, error |-> NULL] : u \in OriginUrls}
    \cup {[filePath |-> NULL, error |-> "Max retries reached"],
          [filePath |-> NULL, error |-> NULL]}

\* routes.ts:356 if (downloadResult.error || !downloadResult.filePath)
DownloadFailedMut(result) == result.error # NULL \/ result.filePath # NULL
DownloadFailed(result) == result.error # NULL \/ result.filePath = NULL

\* routes.ts:352-360: downloadSongViaAPI returns a failure, the row is
\* marked failed and 500 is answered
MarkFailed(r) ==
  /\ pc[r] = "fetching"
  /\ \E result \in DownloadResults :
       /\ DownloadFailed(result)
       /\ req' = [req EXCEPT ![r].downloadResult = result,
                             ![r].pendingSeen = {}]
  /\ downloads' = UpdateDownload(downloads, req[r].download, FailedColumns)
  /\ Send(r, ErrorResponse(500, "Download failed"))
  /\ UNCHANGED <<cache, now, fetch, lastGet, bg, hist, apiKeyLimits, apiKeysTable>>

\* routes.ts:369-374: the columns written on success
CompletedColumnsMut(title, url) ==
  [title |-> title, downloadUrl |-> NULL, status |-> "completed"]
CompletedColumns(title, url) ==
  [title |-> title, downloadUrl |-> url, status |-> "completed"]

\* routes.ts:352-456: downloadSongViaAPI returns a URL; the row is updated,
\* the cache filled, the response sent and the background upload scheduled
\* with setImmediate
MarkCompleted(r) ==
  /\ pc[r] = "fetching"
  /\ \E result \in DownloadResults :
       LET rows == UpdateDownload(downloads, req[r].download,
                     CompletedColumns(req[r].videoInfo, result.filePath))
           ud == rows[req[r].download]
           response == DoneResponse(ud.title, ud.downloadUrl, ud.format)
       IN /\ ~DownloadFailed(result)
          /\ req' = [req EXCEPT ![r].downloadResult = result,
                                ![r].servedBy = "origin",
                                ![r].pendingSeen = {}]
          /\ downloads' = rows
          /\ cache' = FastCacheSet(cache, req[r].videoId, req[r].format,
                         CacheItem(OrDefault(ud.title, "Unknown Title"),
                                   OrDefault(ud.downloadUrl, ""),
                                   OrDefault(ud.format, "mp3"), now), now)
          /\ Send(r, response)
          /\ hist' = NoteResponse(hist, req[r].videoId, response)
  /\ bg' = [bg EXCEPT ![r] = "bgCheck"]
  /\ UNCHANGED <<now, fetch, apiKeyLimits, apiKeysTable, lastGet>>

\* ------------------------------------- background upload (routes.ts:403-456)
\* if (currentDownload && currentDownload.telegramFileId) return;
HasTelegramId(sel) == sel # <<>> /\ sel[1].telegramFileId # NULL

\* routes.ts:452-455: the catch of the background task logs the error; the
\* rows are what they were
BgCatchMut(rows, id) == UpdateDownload(rows, id, FailedColumns)
BgCatch(rows, id) == rows

\* routes.ts:403-421: the checks of routes.ts:406 and routes.ts:413 (the
\* same read twice) return and downloadAudio is called, or a read throws
BgCheck(r) ==
  /\ bg[r] = "bgCheck"
  /\ \/ /\ \E sel \in SelectResults(downloads, req[r].videoId, req[r].format) :
             bg' = [bg EXCEPT ![r] =
                      IF HasTelegramId(sel) THEN "done" ELSE "bgDownload"]
        /\ UNCHANGED downloads
     \/ /\ bg' = [bg EXCEPT ![r] = "done"]
        /\ downloads' = BgCatch(downloads, req[r].download)
  /\ UNCHANGED <<cache, now, fetch, lastGet, pc, req, res, hist, apiKeyLimits, apiKeysTable>>

\* routes.ts:421-451: downloadAudio returns null and the task ends
BgNoAudio(r) ==
  /\ bg[r] = "bgDownload"
  /\ bg' = [bg EXCEPT ![r] = "done"]
  /\ UNCHANGED <<cache, now, fetch, lastGet, downloads, pc, req, res, hist,
                 apiKeyLimits, apiKeysTable>>

\* routes.ts:421-435: downloadAudio returns a buffer, the final check
\* returns, uploadAudio is called; or downloadAudio or the read throws
BgFinalCheck(r) ==
  /\ bg[r] = "bgDownload"
  /\ \/ /\ \E sel \in SelectResults(downloads, req[r].videoId, req[r].format) :
             bg' = [bg EXCEPT ![r] =
                      IF HasTelegramId(sel) THEN "done" ELSE "bgUpload"]
        /\ UNCHANGED downloads
     \/ /\ bg' = [bg EXCEPT ![r] = "done"]
        /\ downloads' = BgCatch(downloads, req[r].download)
  /\ UNCHANGED <<cache, now, fetch, lastGet, pc, req, res, hist, apiKeyLimits, apiKeysTable>>

\* routes.ts:435-441: uploadAudio returns the file Telegram stored, or it
\* returns null or throws (no message in the channel)
BgUpload(r) ==
  /\ bg[r] = "bgUpload"
  /\ \/ /\ req' = [req EXCEPT ![r].telegramFile = FileIds[req[r].download]]
        /\ bg' = [bg EXCEPT ![r] = "bgUpdate"]
        /\ UNCHANGED downloads
     \/ /\ bg' = [bg EXCEPT ![r] = "done"]
        /\ downloads' = BgCatch(downloads, req[r].download)
        /\ UNCHANGED req
  /\ UNCHANGED <<cache, now, fetch, lastGet, pc, res, hist, apiKeyLimits, apiKeysTable>>

\* routes.ts:441-445: the columns written after the upload
TelegramColumnsMut(fileId) ==
  [telegramMessageId |-> "m", telegramFileId |-> fileId, fileSize |-> 1,
   status |-> "processing"]
TelegramColumns(fileId) ==
  [telegramMessageId |-> "m", telegramFileId |-> fileId, fileSize |-> 1]

\* routes.ts:439-455: the row of this request gets the Telegram ids, or
\* updateDownload throws
BgUpdateMut(r) ==
  /\ bg[r] = "bgUpdate"
  /\ \/ \E url \in TelegramUrls :
          downloads' = UpdateDownload(downloads, req[r].download,
                         [telegramMessageId |-> "m",
                          telegramFileId |-> req[r].telegramFile,
                          fileSize |-> 1, downloadUrl |-> url])
     \/ downloads' = BgCatch(downloads, req[r].download)
  /\ bg' = [bg EXCEPT ![r] = "done"]
  /\ UNCHANGED <<cache, now, fetch, lastGet, pc, req, res, hist, apiKeyLimits, apiKeysTable>>
BgUpdate(r) ==
  /\ bg[r] = "bgUpdate"
  /\ \/ downloads' = UpdateDownload(downloads, req[r].download,
                                    TelegramColumns(req[r].telegramFile))
     \/ downloads' = BgCatch(downloads, req[r].download)
  /\ bg' = [bg EXCEPT ![r] = "done"]
  /\ UNCHANGED <<cache, now, fetch, lastGet, pc, req, res, hist, apiKeyLimits, apiKeysTable>>

\* ------------------------------------------------------------------ clock
\* time passes (FastCache driven on its own; the requests of Spec are
\* served within one clock reading)
Tick ==
  /\ now < MaxTime
  /\ now' = now + 1
  /\ lastGet' = NoGet
  /\ UNCHANGED <<cache, downloads, pc, req, res, bg, hist, apiKeyLimits, apiKeysTable, fetch>>

\* the server process is restarted while no handler and no background
\* task is running: the FastCache singleton is constructed anew
\* (cache.ts:11, cache.ts:51), the table keeps its rows
Restart ==
  /\ \A r \in Reqs : Free(r)
  /\ cache # <<>>
  /\ cache' = <<>>
  /\ pc' = [r \in Reqs |-> "idle"]
  /\ req' = [r \in Reqs |-> NoLocals]
  /\ res' = [r \in Reqs |-> NoResponse]
  /\ bg' = [r \in Reqs |-> "none"]
  /\ UNCHANGED <<now, fetch, lastGet, downloads, hist, apiKeyLimits, apiKeysTable>>

Next ==
  \/ \E r \in Reqs, videoId \in VideoIds : Start(r, videoId)
  \/ \E r \in Reqs : TgLookup(r)
  \/ \E r \in Reqs : TgGetFile(r)
  \/ \E r \in Reqs : DbLookup(r)
  \/ \E r \in Reqs : Create(r)
  \/ \E r \in Reqs : MarkNotFound(r)
  \/ \E r \in Reqs : GetInfo(r)
  \/ \E r \in Reqs : MarkFailed(r)
  \/ \E r \in Reqs : MarkCompleted(r)
  \/ \E r \in Reqs : BgCheck(r)
  \/ \E r \in Reqs : BgNoAudio(r)
  \/ \E r \in Reqs : BgFinalCheck(r)
  \/ \E r \in Reqs : BgUpload(r)
  \/ \E r \in Reqs : BgUpdate(r)
  \/ Restart

Spec == Init /\ [][Next]_vars

\* ------------------------- the table with a unique (youtube_id, format)
\* routes.ts:313-316 handles error code 23505 of createDownload: the insert
\* into a table that has a unique index on (youtube_id, format) throws it
\* when the key has a row
UniqueViolation(rows, videoId, format) == RowsOf(rows, videoId, format) # {}

\* error.message of the violation
DuplicateKeyMessage == "duplicate key value violates unique constraint"

\* routes.ts:304-317: createDownload returns the new row, or throws 23505
\* and the handler issues the read of routes.ts:317
CreateUnique(r) ==
  IF UniqueViolation(downloads, req[r].videoId, req[r].format)
  THEN /\ pc[r] = "create"
       /\ pc' = [pc EXCEPT ![r] = "recover"]
       /\ UNCHANGED <<cache, now, fetch, lastGet, downloads, req, res, bg, hist,
                      apiKeyLimits, apiKeysTable>>
  ELSE Create(r)

\* routes.ts:317-340 and routes.ts:474-490: the read returns; a completed
\* row is answered, anything else rethrows the violation, which the outer
\* catch answers with 500 and error.message
Recover(r) ==
  /\ pc[r] = "recover"
  /\ \E sel \in SelectResults(downloads, req[r].videoId, req[r].format) :
       IF DbHit(sel)
       THEN LET ed == sel[1]
                response == DoneResponse(ed.title, ed.downloadUrl, ed.format)
            IN /\ Send(r, response)
               /\ hist' = NoteResponse(hist, req[r].videoId, response)
               /\ req' = [req EXCEPT ![r].servedBy = "db"]
       ELSE /\ Send(r, ErrorResponse(500, DuplicateKeyMessage))
            /\ UNCHANGED <<req, hist>>
  /\ UNCHANGED <<cache, now, fetch, apiKeyLimits, apiKeysTable, lastGet, downloads, bg>>

NextUnique ==
  \/ \E r \in Reqs, videoId \in VideoIds : Start(r, videoId)
  \/ \E r \in Reqs : TgLookup(r)
  \/ \E r \in Reqs : TgGetFile(r)
  \/ \E r \in Reqs : DbLookup(r)
  \/ \E r \in Reqs : CreateUnique(r)
  \/ \E r \in Reqs : Recover(r)
  \/ \E r \in Reqs : MarkNotFound(r)
  \/ \E r \in Reqs : GetInfo(r)
  \/ \E r \in Reqs : MarkFailed(r)
  \/ \E r \in Reqs : MarkCompleted(r)
  \/ \E r \in Reqs : BgCheck(r)
  \/ \E r \in Reqs : BgNoAudio(r)
  \/ \E r \in Reqs : BgFinalCheck(r)
  \/ \E r \in Reqs : BgUpload(r)
  \/ \E r \in Reqs : BgUpdate(r)
  \/ Restart

SpecUnique == Init /\ [][NextUnique]_vars

\* ------------------------------------------- store reads that may throw
\* error.message of a store call that throws (connection lost, timeout)
StoreErrorMessage == "store call failed"

\* routes.ts:138 and routes.ts:232 inside the try of routes.ts:132: the read
\* throws and control goes to the outer catch, which awaits
\* createUsageStats (routes.ts:481)
LookupThrows(r) ==
  /\ pc[r] \in {"tgLookup", "dbLookup"}
  /\ pc' = [pc EXCEPT ![r] = "catch"]
  /\ UNCHANGED <<cache, now, fetch, lastGet, downloads, req, res, bg, hist,
                 apiKeyLimits, apiKeysTable>>

\* routes.ts:474-490: createUsageStats returns and the handler answers
\* res.status(500).json({error: error.message})
Catch(r) ==
  /\ pc[r] = "catch"
  /\ Send(r, ErrorResponse(500, StoreErrorMessage))
  /\ UNCHANGED <<cache, now, fetch, lastGet, downloads, req, bg, hist,
                 apiKeyLimits, apiKeysTable>>

\* routes.ts:480-488: createUsageStats throws inside the catch block, which
\* has no handler of its own: the async handler ends with a rejected
\* promise before the res.status(500) of routes.ts:489
CatchThrows(r) ==
  /\ pc[r] = "catch"
  /\ pc' = [pc EXCEPT ![r] = "ended"]
  /\ UNCHANGED <<cache, now, fetch, lastGet, downloads, req, res, bg, hist,
                 apiKeyLimits, apiKeysTable>>

NextFault ==
  \/ Next
  \/ \E r \in Reqs : LookupThrows(r)
  \/ \E r \in Reqs : Catch(r)
  \/ \E r \in Reqs : CatchThrows(r)

SpecFault == Init /\ [][NextFault]_vars

\* --------------------------------------------------- GET /api/video/:videoId
\* link: `/api/stream/${videoId}/mp4`
StreamLink(videoId) == "/api/stream/" \o videoId \o "/mp4"

\* a request for a video arrives and takes the lowest free slot; the handler
\* runs up to the await of routes.ts:510
StartVideo(r, videoId) ==
  /\ Free(r)
  /\ \A r2 \in Reqs : r2 < r => ~Free(r2)
  /\ \A i, j \in 1..Len(VideoOrder) :
       (videoId = VideoOrder[i] /\ j < i) => hist.started[VideoOrder[j]] > 0
  /\ hist.starts < MaxStarts
  /\ pc' = [pc EXCEPT ![r] = "vSearch"]
  /\ req' = [req EXCEPT ![r] =
       [NoLocals EXCEPT
          !.videoId = videoId, !.format = "mp4",
          !.noRecordAtStart = (RowsOf(downloads, videoId, "mp4") = {}),
          !.archivedAtStart =
             (\E id \in RowsOf(downloads, videoId, "mp4") :
                 /\ downloads[id].status = "completed"
                 /\ downloads[id].telegramFileId # NULL),
          !.failedAtStart =
             (\E id \in RowsOf(downloads, videoId, "mp4") :
                 downloads[id].status = "failed"),
          !.expectTitle = hist.doneTitle[videoId]]]
  /\ res' = [res EXCEPT ![r] = NoResponse]
  /\ bg' = [bg EXCEPT ![r] = "none"]
  /\ hist' = [hist EXCEPT !.starts = @ + 1,
                          !.started[videoId] = IF @ < 2 THEN @ + 1 ELSE @]
  /\ UNCHANGED <<cache, now, fetch, apiKeyLimits, apiKeysTable, lastGet, downloads>>

\* routes.ts:506-541: findExistingFile returns a file of the channel with a
\* fresh download_url and the handler answers, or it returns null (its own
\* errors included) and the read of routes.ts:545 is issued
VSearch(r) ==
  /\ pc[r] = "vSearch"
  /\ \/ \E title \in NextTitles :
          LET response == DoneResponse(title, StreamLink(req[r].videoId), "mp4")
          IN /\ Send(r, response)
             /\ hist' = NoteResponse(hist, req[r].videoId, response)
             /\ req' = [req EXCEPT ![r].servedBy = "telegram"]
     \/ /\ pc' = [pc EXCEPT ![r] = "vDbLookup"]
        /\ UNCHANGED <<req, res, hist>>
  /\ UNCHANGED <<cache, now, fetch, apiKeyLimits, apiKeysTable, lastGet, downloads, bg>>

\* routes.ts:543-574: the read of routes.ts:545 returns
VDbLookup(r) ==
  /\ pc[r] = "vDbLookup"
  /\ \E sel \in SelectResults(downloads, req[r].videoId, req[r].format) :
       IF DbHit(sel)
       THEN LET ed == sel[1]
                response == DoneResponse(ed.title, StreamLink(req[r].videoId),
                                         ed.format)
            IN /\ Send(r, response)
               /\ hist' = NoteResponse(hist, req[r].videoId, response)
               /\ req' = [req EXCEPT ![r].servedBy = "db"]
       ELSE /\ pc' = [pc EXCEPT ![r] = "vCreate"]
            /\ UNCHANGED <<req, res, hist>>
  /\ UNCHANGED <<cache, now, fetch, apiKeyLimits, apiKeysTable, lastGet, downloads, bg>>

\* routes.ts:576-582: createDownload returns the new row
VCreate(r) ==
  /\ pc[r] = "vCreate"
  /\ downloads' = CreateDownload(downloads,
                    [youtubeId |-> req[r].videoId, format |-> req[r].format])
  /\ req' = [req EXCEPT ![r].download = Len(downloads) + 1]
  /\ pc' = [pc EXCEPT ![r] = "vGetInfo"]
  /\ UNCHANGED <<cache, now, fetch, lastGet, res, bg, hist, apiKeyLimits, apiKeysTable>>

\* routes.ts:584-589: getVideoInfo returns null
VNotFound(r) ==
  /\ pc[r] = "vGetInfo"
  /\ downloads' = UpdateDownload(downloads, req[r].download, FailedColumns)
  /\ Send(r, ErrorResponse(404, "Video not found"))
  /\ UNCHANGED <<cache, now, fetch, lastGet, req, bg, hist, apiKeyLimits, apiKeysTable>>

\* routes.ts:584-592: getVideoInfo returns a title and downloadVideo is
\* called
VGetInfo(r) ==
  /\ pc[r] = "vGetInfo"
  /\ \E title \in NextTitles :
       req' = [req EXCEPT ![r].videoInfo = title]
  /\ pc' = [pc EXCEPT ![r] = "vDownload"]
  /\ UNCHANGED <<cache, now, fetch, lastGet, downloads, res, bg, hist,
                 apiKeyLimits, apiKeysTable>>

\* routes.ts:592-596: downloadVideo returns null
VDownloadFailed(r) ==
  /\ pc[r] = "vDownload"
  /\ downloads' = UpdateDownload(downloads, req[r].download, FailedColumns)
  /\ Send(r, ErrorResponse(500, "Download failed"))
  /\ UNCHANGED <<cache, now, fetch, lastGet, req, bg, hist, apiKeyLimits, apiKeysTable>>

\* routes.ts:592-598: downloadVideo returns the buffer and uploadVideo is
\* called
VDownload(r) ==
  /\ pc[r] = "vDownload"
  /\ pc' = [pc EXCEPT ![r] = "vUpload"]
  /\ UNCHANGED <<cache, now, fetch, lastGet, downloads, req, res, bg, hist,
                 apiKeyLimits, apiKeysTable>>

\* routes.ts:598-602: uploadVideo returns null
VUploadFailed(r) ==
  /\ pc[r] = "vUpload"
  /\ downloads' = UpdateDownload(downloads, req[r].download, FailedColumns)
  /\ Send(r, ErrorResponse(500, "Upload to Telegram failed"))
  /\ UNCHANGED <<cache, now, fetch, lastGet, req, bg, hist, apiKeyLimits, apiKeysTable>>

\* routes.ts:598-613: uploadVideo returns the file Telegram stored and the
\* update of routes.ts:605 is issued
VUpload(r) ==
  /\ pc[r] = "vUpload"
  /\ req' = [req EXCEPT ![r].telegramFile = FileIds[req[r].download]]
  /\ pc' = [pc EXCEPT ![r] = "vUpdate"]
  /\ UNCHANGED <<cache, now, fetch, lastGet, downloads, res, bg, hist,
                 apiKeyLimits, apiKeysTable>>

\* routes.ts:605-613: the columns written after the upload
VideoColumns(title, fileId, url) ==
  [title |-> title, telegramMessageId |-> "m", telegramFileId |-> fileId,
   downloadUrl |-> url, fileSize |-> 1, status |-> "completed"]

\* routes.ts:605-632: the update returns and the handler answers
VUpdate(r) ==
  /\ pc[r] = "vUpdate"
  /\ \E url \in TelegramUrls :
       LET rows == UpdateDownload(downloads, req[r].download,
                     VideoColumns(req[r].videoInfo, req[r].telegramFile, url))
           ud == rows[req[r].download]
           response == DoneResponse(ud.title, StreamLink(req[r].videoId),
                                    ud.format)
       IN /\ downloads' = rows
          /\ Send(r, response)
          /\ hist' = NoteResponse(hist, req[r].videoId, response)
  /\ req' = [req EXCEPT ![r].servedBy = "origin"]
  /\ UNCHANGED <<cache, now, fetch, apiKeyLimits, apiKeysTable, lastGet, bg>>

\* error.message of uploadVideo's rethrown error (telegram.ts:148-151)
UploadErrorMessage == "upload failed"

\* routes.ts:598 and telegram.ts:94-152: uploadVideo throws (the bot is not
\* configured, sendVideo fails); control goes to the catch of routes.ts:634,
\* which awaits createUsageStats
VUploadThrows(r) ==
  /\ pc[r] = "vUpload"
  /\ pc' = [pc EXCEPT ![r] = "vCatch"]
  /\ req' = [req EXCEPT ![r].error = UploadErrorMessage]
  /\ UNCHANGED <<cache, now, fetch, lastGet, downloads, res, bg, hist,
                 apiKeyLimits, apiKeysTable>>

\* routes.ts:605: updateDownload throws
VUpdateThrows(r) ==
  /\ pc[r] = "vUpdate"
  /\ pc' = [pc EXCEPT ![r] = "vCatch"]
  /\ req' = [req EXCEPT ![r].error = StoreErrorMessage]
  /\ UNCHANGED <<cache, now, fetch, lastGet, downloads, res, bg, hist,
                 apiKeyLimits, apiKeysTable>>

\* routes.ts:634-645: createUsageStats returns and the handler answers
\* res.status(500).json({error: error.message})
VCatch(r) ==
  /\ pc[r] = "vCatch"
  /\ Send(r, ErrorResponse(500, req[r].error))
  /\ UNCHANGED <<cache, now, fetch, lastGet, downloads, req, bg, hist,
                 apiKeyLimits, apiKeysTable>>

NextVideo ==
  \/ \E r \in Reqs, videoId \in VideoIds : StartVideo(r, videoId)
  \/ \E r \in Reqs : VSearch(r)
  \/ \E r \in Reqs : VDbLookup(r)
  \/ \E r \in Reqs : VCreate(r)
  \/ \E r \in Reqs : VNotFound(r)
  \/ \E r \in Reqs : VGetInfo(r)
  \/ \E r \in Reqs : VDownloadFailed(r)
  \/ \E r \in Reqs : VDownload(r)
  \/ \E r \in Reqs : VUploadFailed(r)
  \/ \E r \in Reqs : VUpload(r)
  \/ \E r \in Reqs : VUpdate(r)
  \/ \E r \in Reqs : VUploadThrows(r)
  \/ \E r \in Reqs : VUpdateThrows(r)
  \/ \E r \in Reqs : VCatch(r)

SpecVideo == Init /\ [][NextVideo]_vars

\* ------------------------------------------ GET /api/stream/:videoId/:format
\* res.redirect(302, url)
RedirectResponse(url) == [NoResponse EXCEPT !.code = 302, !.link = url]

\* a truthy string (cacheItem.downloadUrl, existingDownload.downloadUrl)
Truthy(x) == x # NULL /\ x # ""

\* routes.ts:919-932: a stream request for a song arrives and takes the
\* lowest free slot; a memory cache hit redirects at once, a miss issues
\* the read of routes.ts:932
StartStream(r, videoId) ==
  LET g == FastCacheGet(cache, videoId, "mp3", now)
      rq == [NoLocals EXCEPT !.videoId = videoId, !.format = "mp3"]
  IN /\ Free(r)
     /\ \A r2 \in Reqs : r2 < r => ~Free(r2)
     /\ \A i, j \in 1..Len(VideoOrder) :
          (videoId = VideoOrder[i] /\ j < i) => hist.started[VideoOrder[j]] > 0
     /\ hist.starts < MaxStarts
     /\ cache' = g.cache
     /\ IF g.hit /\ Truthy(g.item[1].downloadUrl)
        THEN /\ Send(r, RedirectResponse(g.item[1].downloadUrl))
             /\ req' = [req EXCEPT ![r] = [rq EXCEPT !.servedBy = "cache"]]
        ELSE /\ pc' = [pc EXCEPT ![r] = "sLookup"]
             /\ req' = [req EXCEPT ![r] = rq]
             /\ res' = [res EXCEPT ![r] = NoResponse]
     /\ bg' = [bg EXCEPT ![r] = "none"]
     /\ hist' = [hist EXCEPT !.starts = @ + 1,
                             !.started[videoId] = IF @ < 2 THEN @ + 1 ELSE @]
     /\ UNCHANGED <<now, fetch, lastGet, downloads, apiKeyLimits, apiKeysTable>>

\* routes.ts:932-960: the read returns; a row with a downloadUrl is put
\* into the memory cache and redirected to, anything else is answered 404
StreamLookup(r) ==
  /\ pc[r] = "sLookup"
  /\ \E sel \in SelectResults(downloads, req[r].videoId, req[r].format) :
       IF sel # <<>> /\ Truthy(sel[1].downloadUrl)
       THEN LET ed == sel[1]
            IN /\ cache' = FastCacheSet(cache, req[r].videoId, req[r].format,
                              CacheItem(OrDefault(ed.title, "Unknown Title"),
                                        ed.downloadUrl,
                                        OrDefault(ed.format, req[r].format),
                                        now), now)
               /\ Send(r, RedirectResponse(ed.downloadUrl))
               /\ req' = [req EXCEPT ![r].servedBy = "db"]
       ELSE /\ Send(r, ErrorResponse(404,
                 "File not found. Please download first using /api/song or /api/video endpoints."))
            /\ UNCHANGED <<cache, req>>
  /\ UNCHANGED <<now, fetch, lastGet, downloads, bg, hist, apiKeyLimits, apiKeysTable>>

NextStream ==
  \/ Next
  \/ \E r \in Reqs, videoId \in VideoIds : StartStream(r, videoId)
  \/ \E r \in Reqs : StreamLookup(r)

SpecStream == Init /\ [][NextStream]_vars

\* ------------------------------------------- FastCache driven on its own
\* fastCache.set(videoId, "mp3", {title, downloadUrl, ...})
CacheSet(videoId, title, url) ==
  /\ cache' = FastCacheSet(cache, videoId, "mp3",
                           CacheItem(title, url, "mp3", now), now)
  /\ hist' = [hist EXCEPT !.inserted =
                IF \/ @ = Untracked
                   \/ Len(@) > maxSize
                   \/ \E i \in 1..Len(@) : @[i] = videoId
                THEN Untracked ELSE Append(@, videoId)]
  /\ lastGet' = NoGet
  /\ UNCHANGED <<now, fetch, apiKeyLimits, apiKeysTable, downloads, pc, req, res, bg>>

\* fastCache.get(videoId, "mp3"); lastGet keeps the call and its result
CacheGet(videoId) ==
  LET key == CacheKey(videoId, "mp3")
      i == IndexOfKey(cache, key)
      g == FastCacheGet(cache, videoId, "mp3", now)
  IN /\ cache' = g.cache
     /\ lastGet' = [key |-> key, at |-> now,
                    found |-> IF i = 0 THEN <<>> ELSE <<cache[i]>>,
                    hit |-> g.hit, item |-> g.item]
     /\ hist' = [hist EXCEPT !.inserted =
                   IF g.cache = cache THEN @
                   ELSE IF g.cache = <<>> THEN <<>> ELSE Untracked]
     /\ UNCHANGED <<now, fetch, apiKeyLimits, apiKeysTable, downloads, pc, req, res, bg>>

\* fastCache.clear()
CacheClear ==
  /\ cache' = FastCacheClear(cache)
  /\ hist' = [hist EXCEPT !.inserted = <<>>]
  /\ lastGet' = NoGet
  /\ UNCHANGED <<now, fetch, apiKeyLimits, apiKeysTable, downloads, pc, req, res, bg>>

NextCache ==
  \/ \E videoId \in CacheVideoIds, title \in CacheTitles, url \in OriginUrls :
       CacheSet(videoId, title, url)
  \/ \E videoId \in CacheVideoIds : CacheGet(videoId)
  \/ CacheClear
  \/ Tick

SpecCache == Init /\ [][NextCache]_vars

\* ---------------------------- YouTubeService.downloadSongViaAPI on its own
\* for (let attempt = 0; attempt < 10; attempt++)
PollAttempts == 10
MoreAttemptsMut(attempt) == attempt <= PollAttempts
MoreAttempts(attempt) == attempt < PollAttempts

\* the body of a response of `${API_URL}/song/${videoId}` as the method
\* reads it: data.status and data.downloadUrl; link is the field in which
\* the song route sends its URL
PollBody(status, downloadUrl, link) ==
  [ok |-> TRUE, throws |-> FALSE, status |-> status,
   downloadUrl |-> downloadUrl, link |-> link]

\* routes.ts:392-399: the success response of GET /api/song/:videoId,
\* res.json({status: "done", title, link, format, duration})
SuccessBody(url) ==
  LET response == DoneResponse("T1", url, "mp3")
  IN PollBody(response.status, NULL, response.link)

\* what one poll can give: fetch throws, a response that is not ok, or a
\* JSON body
PollReplies ==
  {[ok |-> FALSE, throws |-> TRUE, status |-> NULL, downloadUrl |-> NULL,
    link |-> NULL],
   [ok |-> FALSE, throws |-> FALSE, status |-> NULL, downloadUrl |-> NULL,
    link |-> NULL]}
    \cup {PollBody(st, u, NULL) :
            st \in {"completed", "processing", "failed"},
            u \in OriginUrls \cup {NULL}}
    \cup {SuccessBody(u) : u \in OriginUrls}

\* youtube.ts:146 else if (data.status === "failed")
ReplyFailedMut(reply) == FALSE
ReplyFailed(reply) == reply.status = "failed"

\* youtube.ts:152-155: the catch turns a thrown error into an error result
Thrown(message) == DownloadResult(FALSE, FALSE, NULL, message)

\* youtube.ts:149-151: attempt++ and the loop test; the next fetch is
\* issued, or the loop is left and "Max retries reached" is thrown
NextAttempt(f) ==
  IF MoreAttempts(f.attempt + 1)
  THEN [f EXCEPT !.pc = "poll", !.attempt = @ + 1, !.polls = @ + 1]
  ELSE [f EXCEPT !.pc = "returned", !.attempt = @ + 1,
                 !.result = Thrown("Max retries reached. Still downloading...")]

\* youtube.ts:105-110: the method is called and awaits fileExists
DownloadSongViaAPI(videoId) ==
  /\ fetch.pc \in {"idle", "returned"}
  /\ fetch' = [NoFetch EXCEPT !.pc = "fileExists", !.videoId = videoId]
  /\ UNCHANGED <<cache, now, lastGet, downloads, pc, req, res, bg, hist,
               apiKeyLimits, apiKeysTable>>

\* youtube.ts:110-114: the file is in the downloads directory and is read
\* (or reading it throws)
FileCached ==
  /\ fetch.pc = "fileExists"
  /\ \/ fetch' = [fetch EXCEPT !.pc = "returned",
                     !.result = DownloadResult(TRUE, TRUE, NULL, NULL)]
     \/ fetch' = [fetch EXCEPT !.pc = "returned",
                     !.result = Thrown("ENOENT")]
  /\ UNCHANGED <<cache, now, lastGet, downloads, pc, req, res, bg, hist,
               apiKeyLimits, apiKeysTable>>

\* youtube.ts:110-122: the file is not there; the loop is entered with
\* attempt 0 and the first fetch is issued
FileMissing ==
  /\ fetch.pc = "fileExists"
  /\ fetch' = IF MoreAttempts(0)
              THEN [fetch EXCEPT !.pc = "poll", !.polls = @ + 1]
              ELSE [fetch EXCEPT !.pc = "returned",
                      !.result = Thrown("Max retries reached. Still downloading...")]
  /\ UNCHANGED <<cache, now, lastGet, downloads, pc, req, res, bg, hist,
               apiKeyLimits, apiKeysTable>>

\* youtube.ts:122-149: the fetch of this attempt returns (or throws) and
\* the body is looked at
PollReply ==
  /\ fetch.pc = "poll"
  /\ \E reply \in PollReplies :
       LET f == [fetch EXCEPT !.onlyProcessing =
                   @ /\ reply.ok /\ reply.status = "processing",
                              !.lastReply = <<reply>>]
       IN fetch' =
            IF reply.throws
            THEN [f EXCEPT !.pc = "returned", !.result = Thrown("fetch failed")]
            ELSE IF ~reply.ok
            THEN [f EXCEPT !.pc = "returned",
                    !.result = Thrown("API request failed with status 500")]
            ELSE IF reply.status = "completed" /\ reply.downloadUrl # NULL
            THEN [f EXCEPT !.pc = "returned",
                    !.result = DownloadResult(FALSE, FALSE, reply.downloadUrl, NULL)]
            ELSE IF reply.status = "processing"
            THEN [f EXCEPT !.pc = "wait"]
            ELSE IF ReplyFailed(reply)
            THEN [f EXCEPT !.pc = "returned",
                    !.result = Thrown("Download failed: Unknown error")]
            ELSE NextAttempt(f)
  /\ UNCHANGED <<cache, now, lastGet, downloads, pc, req, res, bg, hist,
               apiKeyLimits, apiKeysTable>>

\* youtube.ts:145: the 4000 ms timer fires
WaitOver ==
  /\ fetch.pc = "wait"
  /\ fetch' = NextAttempt(fetch)
  /\ UNCHANGED <<cache, now, lastGet, downloads, pc, req, res, bg, hist,
               apiKeyLimits, apiKeysTable>>

NextFetch ==
  \/ \E videoId \in VideoIds : DownloadSongViaAPI(videoId)
  \/ FileCached
  \/ FileMissing
  \/ PollReply
  \/ WaitOver

SpecFetch == Init /\ [][NextFetch]_vars

\* ------------------------------------------------------ rateLimitByApiKey
\* part_005:20 if (!limit || now > limit.resetTime)
WindowOver(found, t) == found = <<>> \/ t > found[1].resetTime

\* part_005:26 if (limit.count >= API_KEY_LIMIT)
LimitReachedMut(limit) == limit.count > API_KEY_LIMIT
LimitReached(limit) == limit.count >= API_KEY_LIMIT

\* a request with req.apiKey.key = apiKey reaches the middleware, which
\* runs to its end (it awaits nothing): next() or 429
RateLimitByApiKey(apiKey) ==
  LET found == apiKeyLimits[apiKey]
      call == [key |-> apiKey, at |-> now, found |-> found,
               passed |-> TRUE, code |-> 0]
      pass == [hist.admitted EXCEPT ![apiKey][now] = @ + 1]
  IN /\ IF WindowOver(found, now)
        THEN /\ apiKeyLimits' =
                  [apiKeyLimits EXCEPT ![apiKey] =
                     <<[count |-> 1, resetTime |-> now + RATE_LIMIT_WINDOW]>>]
             /\ hist' = [hist EXCEPT !.admitted = pass, !.lastLimit = call]
        ELSE IF LimitReached(found[1])
        THEN /\ hist' = [hist EXCEPT !.lastLimit =
                           [call EXCEPT !.passed = FALSE, !.code = 429]]
             /\ UNCHANGED apiKeyLimits
        ELSE /\ apiKeyLimits' =
                  [apiKeyLimits EXCEPT ![apiKey] =
                     <<[found[1] EXCEPT !.count = @ + 1]>>]
             /\ hist' = [hist EXCEPT !.admitted = pass, !.lastLimit = call]
     /\ UNCHANGED <<cache, now, lastGet, downloads, pc, req, res, bg, fetch,
                   apiKeysTable>>

\* part_005:13 a request without req.apiKey is passed on unseen
RateLimitNoKey ==
  /\ hist' = [hist EXCEPT !.lastLimit =
                [NoLimitCall EXCEPT !.at = now, !.passed = TRUE]]
  /\ UNCHANGED <<cache, now, lastGet, downloads, pc, req, res, bg, fetch,
                 apiKeyLimits, apiKeysTable>>

\* Date.now() moves on
RateTick ==
  /\ now < MaxRateTime
  /\ now' = now + 1
  /\ UNCHANGED <<cache, lastGet, downloads, pc, req, res, bg, hist, fetch,
                 apiKeyLimits, apiKeysTable>>

NextRate ==
  \/ \E apiKey \in ApiKeys : RateLimitByApiKey(apiKey)
  \/ RateLimitNoKey
  \/ RateTick

SpecRate == Init /\ [][NextRate]_vars

\* ------------------------------- authenticateApiKey and the usage count
\* the values of ?api= : absent, a key that is not in the table, the keys
ApiParams == {NULL, "a0"} \cup ApiKeys

\* storage.getApiKey(key): the active row with that key, <<>> for none
GetApiKey(rows, key) ==
  IF key \in DOMAIN rows /\ rows[key].isActive THEN <<rows[key]>> ELSE <<>>

\* auth.ts:58 if ((key.usageCount || 0) >= (key.usageLimit || 0))
UsageExceeded(key) == key.usageCount >= key.usageLimit

\* storage.updateApiKeyUsage(keyId): usage_count = usage_count + 1
UpdateApiKeyUsage(rows, key) ==
  [rows EXCEPT ![key].usageCount = @ + 1]

\* a request with ?api=api arrives and takes the lowest free slot;
\* authenticateApiKey runs up to its await of storage.getApiKey, or answers
\* 401 when the parameter is absent (auth.ts:41-47)
AuthStart(r, api) ==
  /\ Free(r)
  /\ \A r2 \in Reqs : r2 < r => ~Free(r2)
  /\ hist.starts < MaxStarts
  /\ req' = [req EXCEPT ![r] = [NoLocals EXCEPT !.api = api]]
  /\ bg' = [bg EXCEPT ![r] = "none"]
  /\ hist' = [hist EXCEPT !.starts = @ + 1]
  /\ IF api = NULL
     THEN Send(r, ErrorResponse(401, "API key required"))
     ELSE /\ pc' = [pc EXCEPT ![r] = "getApiKey"]
          /\ res' = [res EXCEPT ![r] = NoResponse]
  /\ UNCHANGED <<cache, now, lastGet, downloads, fetch, apiKeyLimits,
                 apiKeysTable>>

\* storage.getApiKey returns: 401, 429, or req.apiKey = key and next(),
\* which runs rateLimitByApiKey (part_005:10-35) and, when that calls
\* next(), the route handler up to its first await
AuthenticateApiKey(r) ==
  /\ pc[r] = "getApiKey"
  /\ LET found == GetApiKey(apiKeysTable, req[r].api)
         limit == apiKeyLimits[req[r].api]
     IN IF found = <<>>
        THEN /\ Send(r, ErrorResponse(401, "Invalid API key"))
             /\ UNCHANGED <<req, apiKeyLimits>>
        ELSE IF ~found[1].isActive
        THEN /\ Send(r, ErrorResponse(401, "API key is deactivated"))
             /\ UNCHANGED <<req, apiKeyLimits>>
        ELSE IF UsageExceeded(found[1])
        THEN /\ Send(r, ErrorResponse(429, "API key usage limit exceeded"))
             /\ UNCHANGED <<req, apiKeyLimits>>
        ELSE IF WindowOver(limit, now)
        THEN /\ apiKeyLimits' =
                  [apiKeyLimits EXCEPT ![req[r].api] =
                     <<[count |-> 1, resetTime |-> now + RATE_LIMIT_WINDOW]>>]
             /\ req' = [req EXCEPT ![r].apiKey = found]
             /\ pc' = [pc EXCEPT ![r] = "handler"]
             /\ UNCHANGED res
        ELSE IF LimitReached(limit[1])
        THEN /\ Send(r, ErrorResponse(429, "Rate limit exceeded"))
             /\ req' = [req EXCEPT ![r].apiKey = found]
             /\ UNCHANGED apiKeyLimits
        ELSE /\ apiKeyLimits' =
                  [apiKeyLimits EXCEPT ![req[r].api] =
                     <<[limit[1] EXCEPT !.count = @ + 1]>>]
             /\ req' = [req EXCEPT ![r].apiKey = found]
             /\ pc' = [pc EXCEPT ![r] = "handler"]
             /\ UNCHANGED res
  /\ UNCHANGED <<cache, now, lastGet, downloads, bg, hist, fetch, apiKeysTable>>

\* the route handler answers and leaves the usage update to setImmediate
\* (routes.ts:170-190)
HandlerResponds(r) ==
  /\ pc[r] = "handler"
  /\ Send(r, [NoResponse EXCEPT !.code = 200, !.status = "done"])
  /\ bg' = [bg EXCEPT ![r] = "usage"]
  /\ UNCHANGED <<cache, now, lastGet, downloads, req, hist, fetch,
                 apiKeyLimits, apiKeysTable>>

\* routes.ts:171-173: the setImmediate callback runs
\* storage.updateApiKeyUsage(req.apiKey!.id)
RecordUsage(r) ==
  /\ bg[r] = "usage"
  /\ apiKeysTable' = UpdateApiKeyUsage(apiKeysTable, req[r].apiKey[1].key)
  /\ bg' = [bg EXCEPT ![r] = "done"]
  /\ UNCHANGED <<cache, now, lastGet, downloads, pc, req, res, hist, fetch,
                 apiKeyLimits>>

NextAuth ==
  \/ \E r \in Reqs, api \in ApiParams : AuthStart(r, api)
  \/ \E r \in Reqs : AuthenticateApiKey(r)
  \/ \E r \in Reqs : HandlerResponds(r)
  \/ \E r \in Reqs : RecordUsage(r)
  \/ RateTick

SpecAuth == Init /\ [][NextAuth]_vars

\* ================================================================ claims
SameKey(r1, r2) ==
  /\ r1 # r2
  /\ req[r1].videoId # NULL
  /\ req[r1].videoId = req[r2].videoId

\* the handler of slot r has called downloadSongViaAPI
Fetched(r) == req[r].videoInfo # NULL

\* the background task of slot r has put a file into the channel
Uploaded(r) == req[r].telegramFile # NULL

\* the handler of slot r went to the origin and the origin failed
OriginFailed(r) ==
  /\ pc[r] = "responded"
  /\ req[r].download # 0
  /\ req[r].videoInfo = NULL \/ req[r].downloadResult.filePath = NULL

\* the handler of slot r went to the origin and both calls succeeded
OriginSucceeded(r) ==
  /\ pc[r] = "responded"
  /\ req[r].videoInfo # NULL
  /\ req[r].downloadResult.filePath # NULL

\* C1: two requests for one key that both arrived while the key had no row
\* (so they ran concurrently) do not both invoke the origin content fetch.
C1_SingleFlight ==
  \A r1, r2 \in Reqs :
    (SameKey(r1, r2) /\ req[r1].noRecordAtStart /\ req[r2].noRecordAtStart)
      => ~(Fetched(r1) /\ Fetched(r2))

\* C2: the table holds at most one row per (youtubeId, format).
C2_OneRecordPerKey ==
  \A v \in VideoIds : Cardinality(RowsOf(downloads, v, "mp3")) <= 1

\* C3: no step takes a row whose status is completed or failed back to
\* processing.
C3_StatusNeverReverts ==
  [][\A id \in 1..Len(downloads) :
        downloads[id].status \in {"completed", "failed"}
          => downloads'[id].status # "processing"]_vars

\* C3 witness: a background task has written to a completed row.
C3_Witness ==
  \E id \in 1..Len(downloads) :
    downloads[id].status = "completed" /\ downloads[id].telegramFileId # NULL

\* C4: two background uploads for one key that run at the same time have
\* not both uploaded a file.
C4_AtMostOneUpload ==
  \A r1, r2 \in Reqs :
    (SameKey(r1, r2) /\ bg[r1] \notin {"none", "done"}
                     /\ bg[r2] \notin {"none", "done"})
      => ~(Uploaded(r1) /\ Uploaded(r2))

\* C5: a request that arrives after a done response for its key makes no
\* origin call and answers done with the title of that response.
C5_LaterResolveSame ==
  \A r \in Reqs :
    req[r].expectTitle # NULL
      => /\ pc[r] \notin {"create", "getInfo", "fetching"}
         /\ req[r].download = 0
         /\ pc[r] = "responded"
              => res[r].status = "done" /\ res[r].title = req[r].expectTitle

\* C6: the only request ever made for a key, when both origin calls
\* succeed, answers done with the origin's title and URL and leaves exactly
\* one row for the key, completed, with that URL.
C6_SingleResolve ==
  \A r \in Reqs :
    (OriginSucceeded(r) /\ hist.started[req[r].videoId] = 1)
      => /\ res[r].code = 200
         /\ res[r].status = "done"
         /\ res[r].title = req[r].videoInfo
         /\ res[r].link = req[r].downloadResult.filePath
         /\ RowsOf(downloads, req[r].videoId, req[r].format) = {req[r].download}
         /\ downloads[req[r].download].status = "completed"
         /\ downloads[req[r].download].downloadUrl = req[r].downloadResult.filePath

\* C6 witness: such a request has answered.
C6_Witness ==
  \E r \in Reqs : OriginSucceeded(r) /\ hist.started[req[r].videoId] = 1

\* C7: when getVideoInfo returned null or downloadSongViaAPI returned an
\* error, the row the request created has status failed once it answered.
C7_FailedRecord ==
  \A r \in Reqs :
    (/\ pc[r] = "responded"
     /\ req[r].download # 0
     /\ req[r].videoInfo = NULL \/ req[r].downloadResult.error # NULL)
      => downloads[req[r].download].status = "failed"

\* C7 witness: a request answered after the content fetch returned an error.
C7_Witness ==
  \E r \in Reqs :
    /\ pc[r] = "responded"
    /\ req[r].download # 0
    /\ req[r].downloadResult.error # NULL

\* C8: when the origin fails the answer is 404 with status "error", a
\* message, the videoId and the format.
C8_ErrorShape ==
  \A r \in Reqs :
    OriginFailed(r)
      => /\ res[r].code = 404
         /\ res[r].status = "error"
         /\ res[r].message # NULL
         /\ res[r].videoId = req[r].videoId
         /\ res[r].format = req[r].format

\* C9: a request that arrives when its key has a completed row with a
\* Telegram file id never creates a row, never calls the origin and never
\* starts a background upload.
C9_ArchivedNoOrigin ==
  \A r \in Reqs :
    req[r].archivedAtStart
      => /\ pc[r] \notin {"create", "getInfo", "fetching", "poll"}
         /\ req[r].download = 0
         /\ req[r].videoInfo = NULL
         /\ bg[r] = "none"

\* C9 witness: such a request has answered although getFile gave no fresh
\* URL.
C9_Witness ==
  \E r \in Reqs :
    /\ req[r].archivedAtStart
    /\ pc[r] = "responded"
    /\ res[r].status = "done"
    /\ res[r].link \notin TelegramUrls

\* C10 as stated: an entry found by get is returned before T+TTL and is a
\* miss from T+TTL on.
C10_Original ==
  lastGet.found # <<>>
    => LET T == lastGet.found[1].timestamp
       IN /\ lastGet.at < T + ttl => lastGet.hit /\ lastGet.item = lastGet.found
          /\ lastGet.at >= T + ttl => ~lastGet.hit

\* C10 amended: an entry found by get is returned up to and including
\* T+TTL and is a miss after T+TTL.
C10_CacheTtl ==
  lastGet.found # <<>>
    => LET T == lastGet.found[1].timestamp
       IN /\ lastGet.at <= T + ttl => lastGet.hit /\ lastGet.item = lastGet.found
          /\ lastGet.at > T + ttl => ~lastGet.hit

\* C10 witness: a get exactly at T+TTL has returned the entry.
C10_Witness ==
  /\ lastGet.found # <<>>
  /\ lastGet.at = lastGet.found[1].timestamp + ttl
  /\ lastGet.hit

\* C11: a step that puts a key that was absent into a cache holding maxSize
\* entries removes the first entry of the Map and no other, and puts the new
\* key last; and after set calls for maxSize + 1 distinct video ids on an
\* empty cache (capacity 3: four ids), with nothing expired, a get misses
\* the first id and hits each of the others.
C11_Eviction ==
  [][/\ \A v \in CacheVideoIds \cup VideoIds :
          (/\ IndexOfKey(cache, CacheKey(v, "mp3")) = 0
           /\ IndexOfKey(cache', CacheKey(v, "mp3")) # 0
           /\ Len(cache) >= maxSize)
            => /\ Len(cache') = Len(cache)
               /\ SubSeq(cache', 1, Len(cache') - 1) = Tail(cache)
               /\ cache'[Len(cache')].key = CacheKey(v, "mp3")
     /\ LET ins == hist'.inserted
        IN (/\ ins # Untracked
            /\ Len(ins) = maxSize + 1
            /\ \A i, j \in 1..Len(ins) : i # j => ins[i] # ins[j]
            /\ \A i \in 1..Len(cache') : ~(now' - cache'[i].timestamp > ttl))
             => /\ ~FastCacheGet(cache', ins[1], "mp3", now').hit
                /\ \A i \in 2..Len(ins) :
                     FastCacheGet(cache', ins[i], "mp3", now').hit]_vars

\* C11 witness: four distinct video ids have been set on an empty cache
\* of capacity 3 and a get for the first of them has missed.
C11_Witness ==
  /\ hist.inserted # Untracked
  /\ Len(hist.inserted) = maxSize + 1
  /\ \A i, j \in 1..Len(hist.inserted) : i # j => hist.inserted[i] # hist.inserted[j]
  /\ Len(cache) = maxSize
  /\ lastGet.key = CacheKey(hist.inserted[1], "mp3")
  /\ lastGet.found = <<>>
  /\ ~lastGet.hit

ArchivingStarted(r) ==
  \/ pc[r] \in {"vUpload", "vUpdate"}
  \/ bg[r] \in {"bgDownload", "bgUpload", "bgUpdate"}

\* C13: while the content of a request whose origin fetch succeeded is
\* fetched for the upload or uploaded, the request has already been
\* answered done.
C13_RespondBeforeUpload ==
  \A r \in Reqs : ArchivingStarted(r) => res[r].status = "done"

\* C14: when the background task of a request has ended without writing a
\* Telegram file id to the request's row (downloadAudio, uploadAudio or
\* updateDownload failed, or the task gave up), the row is completed with
\* the URL the origin gave, and the request's response is the done response
\* it was given and nothing else.
C14_PromotionFailure ==
  \A r \in Reqs :
    (bg[r] = "done" /\ downloads[req[r].download].telegramFileId = NULL)
      => /\ downloads[req[r].download].status = "completed"
         /\ downloads[req[r].download].downloadUrl = req[r].downloadResult.filePath
         /\ downloads[req[r].download].downloadUrl \in OriginUrls
         /\ pc[r] = "responded"
         /\ res[r] = DoneResponse(req[r].videoInfo, req[r].downloadResult.filePath,
                                  req[r].format)

\* C14 witness: the upload succeeded and the update of the row failed.
C14_Witness ==
  \E r \in Reqs :
    /\ bg[r] = "done"
    /\ Uploaded(r)
    /\ downloads[req[r].download].telegramFileId = NULL

\* C15: a request whose store lookup was made while the key had a row in
\* progress has not gone to the origin (getVideoInfo, downloadSongViaAPI)
\* as long as that row is still in progress.
C15_WaitsForPending ==
  \A r \in Reqs :
    \A id \in req[r].pendingSeen :
      downloads[id].status = "processing"
        => pc[r] \notin {"getInfo", "fetching"} /\ ~Fetched(r)

C17_ErrorOnlyAfterOrigin ==
  \A r \in Reqs :
    (pc[r] = "responded" /\ res[r].status # "done") => OriginFailed(r)

\* the FastCache holds an entry for the key of slot r that get would return
CacheHit(r) == FastCacheGet(cache, req[r].videoId, req[r].format, now).hit

\* C18 as stated: a request that arrives while the cache holds an unexpired
\* entry for its key does not query the store: it is not left waiting for
\* the read of routes.ts:138.
C18_Original ==
  [][\A r \in Reqs :
       (pc[r] # "tgLookup" /\ pc'[r] = "tgLookup")
         => ~FastCacheGet(cache, req'[r].videoId, req'[r].format, now).hit]_vars

\* C18 amended: the song handler reads the store for a Telegram file id
\* first and asks Telegram for a fresh URL when there is one; when that
\* gives no answer and the cache holds an unexpired entry for the key, the
\* handler answers with that entry and neither reads the store again nor
\* creates a row nor goes to the origin; the second store read is made only
\* after a cache miss.
C18_CacheAfterArchive ==
  [][\A r \in Reqs :
       /\ (pc[r] \in {"tgLookup", "tgGetFile"} /\ pc'[r] # pc[r]
              /\ pc'[r] # "tgGetFile" /\ req'[r].servedBy # "telegram"
              /\ CacheHit(r))
            => /\ pc'[r] = "responded"
               /\ req'[r].servedBy = "cache"
               /\ LET e == FastCacheGet(cache, req[r].videoId, req[r].format,
                                        now).item[1]
                  IN res'[r] = DoneResponse(e.title, e.downloadUrl, e.format)
               /\ req'[r].download = 0
               /\ downloads' = downloads
       /\ (pc[r] # "dbLookup" /\ pc'[r] = "dbLookup")
            => pc[r] \in {"tgLookup", "tgGetFile"} /\ ~CacheHit(r)
       /\ (pc[r] # "tgGetFile" /\ pc'[r] = "tgGetFile")
            => pc[r] = "tgLookup"]_vars

\* C18 witness: a request whose key has a row with a Telegram file id got no
\* fresh URL and was answered from the cache.
C18_Witness ==
  \E r \in Reqs :
    /\ pc[r] = "responded"
    /\ req[r].archivedAtStart
    /\ req[r].servedBy = "cache"
    /\ req[r].download = 0

\* C19: a done response to a request that arrived when its key had a
\* completed row with a Telegram file id carries the URL that getFile gave
\* during that request, never a URL taken from the cache or from the row.
C19_FreshUrl ==
  \A r \in Reqs :
    (req[r].archivedAtStart /\ pc[r] = "responded" /\ res[r].status = "done")
      => req[r].servedBy = "telegram" /\ res[r].link \in TelegramUrls

\* C20: no two handlers are waiting for downloadSongViaAPI for the same
\* (videoId, format) at the same time.
C20_OneFetchInFlight ==
  \A r1, r2 \in Reqs :
    (SameKey(r1, r2) /\ req[r1].format = req[r2].format)
      => ~(pc[r1] = "fetching" /\ pc[r2] = "fetching")

\* C21: the status of a row changes only from processing to completed or
\* from processing to failed: a failed row never becomes completed and a
\* completed row never becomes failed, whatever later requests for the key
\* and background tasks do.
C21_StatusTransitions ==
  [][\A id \in 1..Len(downloads) :
        downloads'[id].status # downloads[id].status
          => /\ downloads[id].status = "processing"
             /\ downloads'[id].status \in {"completed", "failed"}]_vars

\* C21 witness: a key has a failed row and a completed row that a
\* background task has written to after a later request resolved the key.
C21_Witness ==
  \E id1, id2 \in 1..Len(downloads) :
    /\ id1 < id2
    /\ downloads[id1].youtubeId = downloads[id2].youtubeId
    /\ downloads[id1].status = "failed"
    /\ downloads[id2].status = "completed"
    /\ downloads[id2].telegramFileId # NULL

\* C22: after any sequence of set, get and clear calls the cache holds at
\* most maxSize entries (the size that getStats reports never exceeds the
\* maxSize it reports).
C22_SizeBounded == GetStats(cache).size <= GetStats(cache).maxSize

\* C22 witness: more set calls than the capacity have been made on an
\* empty cache and the cache is full.
C22_Witness ==
  /\ hist.inserted # Untracked
  /\ Len(hist.inserted) > maxSize
  /\ GetStats(cache).size = maxSize

\* C23: one call of downloadSongViaAPI issues at most 10 fetches, and when
\* every fetch of a call that has returned was answered "processing", 10
\* fetches were made and the result is an error result without a filePath.
C23_BoundedPolls ==
  /\ fetch.polls <= 10
  /\ (fetch.pc = "returned" /\ fetch.polls > 0 /\ fetch.onlyProcessing)
       => /\ fetch.polls = 10
          /\ fetch.result.error # NULL
          /\ fetch.result.filePath = NULL
          /\ ~fetch.result.buffer

\* C23 witness: a call has returned after ten fetches that were all
\* answered "processing".
C23_Witness ==
  /\ fetch.pc = "returned"
  /\ fetch.polls = 10
  /\ fetch.onlyProcessing

\* the number of requests with key k that were passed on at the clock
\* readings from..to
RECURSIVE AdmittedIn(_, _, _)
AdmittedIn(k, from, to) ==
  IF from > to THEN 0
  ELSE (IF to \in 0..MaxRateTime THEN hist.admitted[k][to] ELSE 0)
         + AdmittedIn(k, from, to - 1)

\* C24 as stated: in any interval of RATE_LIMIT_WINDOW clock readings at
\* most API_KEY_LIMIT requests of one key are passed on.
C24_Original ==
  \A k \in ApiKeys : \A s \in 0..MaxRateTime :
    AdmittedIn(k, s, s + RATE_LIMIT_WINDOW - 1) <= API_KEY_LIMIT

\* C24 amended: in each window of a key (from the request that opened it
\* to its resetTime, RATE_LIMIT_WINDOW later) at most API_KEY_LIMIT requests
\* of the key are passed on, and every request of the key that comes up to
\* resetTime after API_KEY_LIMIT requests of the window were passed on is
\* answered 429 and not passed on; only such requests are answered 429.
C24_FixedWindow ==
  /\ \A k \in ApiKeys :
       apiKeyLimits[k] # <<>>
         => AdmittedIn(k, apiKeyLimits[k][1].resetTime - RATE_LIMIT_WINDOW,
                       apiKeyLimits[k][1].resetTime) <= API_KEY_LIMIT
  /\ LET c == hist.lastLimit
         full == /\ c.key # NULL
                 /\ c.found # <<>>
                 /\ c.at <= c.found[1].resetTime
                 /\ AdmittedIn(c.key, c.found[1].resetTime - RATE_LIMIT_WINDOW,
                               c.found[1].resetTime)
                      - (IF c.passed THEN 1 ELSE 0) >= API_KEY_LIMIT
     IN /\ full => ~c.passed /\ c.code = 429
        /\ c.code = 429 => full /\ ~c.passed

\* C24 witness: a request of a key whose window was full was answered 429.
C24_Witness ==
  /\ hist.lastLimit.key # NULL
  /\ hist.lastLimit.code = 429
  /\ ~hist.lastLimit.passed

\* C25: once the request that created a row has answered, the row is
\* completed or failed, also when uploadVideo or updateDownload threw.
C25_PendingSettled ==
  \A r \in Reqs :
    (pc[r] = "responded" /\ req[r].download # 0)
      => downloads[req[r].download].status \in {"completed", "failed"}

\* C26: a handler that has run to its end has sent a response, done or
\* error, also when store calls throw.
C26_OneResponse ==
  \A r \in Reqs :
    pc[r] \in {"responded", "ended"}
      => res[r].code # 0 /\ (res[r].status = "done" \/ res[r].error # NULL)

WithoutKey(c, key) ==
  LET Other(e) == e.key # key
  IN SelectSeq(c, Other)

\* the entries of c that have the key
EntriesOf(c, key) == {i \in 1..Len(c) : c[i].key = key}

\* C28: a get step for a key whose entry is older than ttl leaves the cache
\* with exactly that entry removed (one entry less, the others and their
\* order as they were) and misses; a get step for a key that has no entry
\* leaves the cache as it was and misses.
C28_ExpiredGet ==
  [][lastGet' # NoGet
       => LET g == lastGet'
              is == EntriesOf(cache, g.key)
          IN /\ (\E i \in is : g.at - cache[i].timestamp > ttl)
                  => /\ cache' = WithoutKey(cache, g.key)
                     /\ Len(cache') = Len(cache) - 1
                     /\ ~g.hit
             /\ is = {} => cache' = cache /\ ~g.hit]_vars

\* C28 witness: a get found an expired entry and missed while the cache
\* held another entry, which is still there.
C28_Witness ==
  /\ lastGet.found # <<>>
  /\ lastGet.at - lastGet.found[1].timestamp > ttl
  /\ ~lastGet.hit
  /\ Len(cache) >= 1

\* C29: a get step that hits leaves the cache as it was: the same entries
\* with the same timestamps in the same order; it returns the entry of the
\* key.
C29_HitNoChange ==
  [][(lastGet' # NoGet /\ lastGet'.hit)
       => /\ cache' = cache
          /\ \E i \in EntriesOf(cache, lastGet'.key) :
               lastGet'.item = <<cache[i]>>]_vars

\* C29 witness: a get has hit the first entry of a full cache after the
\* time of its insertion; the entry is still first, with its timestamp.
C29_Witness ==
  /\ lastGet.hit
  /\ Len(cache) = maxSize
  /\ cache[1].key = lastGet.key
  /\ lastGet.at > cache[1].timestamp
  /\ lastGet.item = <<cache[1]>>

\* C30: for every entry of the memory cache the table holds a completed
\* row of the entry's video id and format with the entry's title, and the
\* entry's URL is the downloadUrl of that row or, when the row has a
\* Telegram file id, a URL that Telegram's getFile gave.
C30_CacheViewOfRecord ==
  \A i \in 1..Len(cache) :
    \E id \in RowsOf(downloads, cache[i].key[1], cache[i].key[2]) :
      /\ downloads[id].status = "completed"
      /\ cache[i].title = downloads[id].title
      /\ \/ cache[i].downloadUrl = downloads[id].downloadUrl
         \/ /\ cache[i].downloadUrl \in TelegramUrls
            /\ downloads[id].telegramFileId # NULL

\* C30 witness: a stream request that missed the cache has put the row of
\* its key into the cache, and the entry is there.
C30_Witness ==
  \E r \in Reqs : \E i \in 1..Len(cache) :
    /\ res[r].code = 302
    /\ req[r].servedBy = "db"
    /\ cache[i].key = CacheKey(req[r].videoId, req[r].format)
    /\ cache[i].downloadUrl = res[r].link

\* C31: a step in which a background task writes a Telegram file id to a
\* row changes, in the whole table, only the telegramFileId,
\* telegramMessageId and fileSize of that row: its status, title and
\* downloadUrl (and its youtubeId and format) are what they were, no other
\* row changes and no row is added.
C31_PromotionFrame ==
  [][\A id \in 1..Len(downloads) :
        downloads'[id].telegramFileId # downloads[id].telegramFileId
          => /\ Len(downloads') = Len(downloads)
             /\ \A f \in DOMAIN downloads[id] :
                  f \notin {"telegramFileId", "telegramMessageId", "fileSize"}
                    => downloads'[id][f] = downloads[id][f]
             /\ \A id2 \in 1..Len(downloads) :
                  id2 # id => downloads'[id2] = downloads[id2]]_vars

\* C31 witness: a background task has ended after writing the file id of
\* its upload to its row, which is completed with the origin's URL and the
\* title of the request.
C31_Witness ==
  \E r \in Reqs :
    /\ bg[r] = "done"
    /\ Uploaded(r)
    /\ downloads[req[r].download].telegramFileId = req[r].telegramFile
    /\ downloads[req[r].download].fileSize = 1
    /\ downloads[req[r].download].status = "completed"
    /\ downloads[req[r].download].title = req[r].videoInfo
    /\ downloads[req[r].download].downloadUrl \in OriginUrls

\* C32: a row that has a Telegram file id keeps that id in every later
\* step, whatever handlers and background tasks run: it is neither cleared
\* nor replaced.
C32_ArchiveRefStable ==
  [][\A id \in 1..Len(downloads) :
        downloads[id].telegramFileId # NULL
          => downloads'[id].telegramFileId = downloads[id].telegramFileId]_vars

\* C32 witness: after a row of a key got its file id, the background task
\* of another request for the key has uploaded and written its own file
\* id to its own row; the first row has its id still.
C32_Witness ==
  \E id1, id2 \in 1..Len(downloads) :
    /\ id1 < id2
    /\ downloads[id1].youtubeId = downloads[id2].youtubeId
    /\ downloads[id1].telegramFileId = FileIds[id1]
    /\ downloads[id2].telegramFileId = FileIds[id2]

\* C33: the step in which a poll is answered "failed" or with a response
\* that is not ok ends the call with an error result and no filePath, and
\* no fetch is issued in that step; a call that has returned issues no
\* fetch.
C33_FailedEndsCall ==
  [][/\ (/\ fetch.pc = "poll"
         /\ fetch'.lastReply # <<>>
         /\ LET reply == fetch'.lastReply[1]
            IN ~reply.throws /\ (~reply.ok \/ reply.status = "failed"))
         => /\ fetch'.pc = "returned"
            /\ fetch'.polls = fetch.polls
            /\ fetch'.result.error # NULL
            /\ fetch'.result.filePath = NULL
            /\ ~fetch'.result.buffer
     /\ fetch.pc = "returned"
         => fetch'.polls = fetch.polls \/ fetch'.pc = "fileExists"]_vars

\* C33 witness: a call has returned an error right after an answer
\* "failed" to a poll that was not its first one.
C33_Witness ==
  /\ fetch.pc = "returned"
  /\ fetch.lastReply # <<>>
  /\ fetch.lastReply[1].status = "failed"
  /\ fetch.polls > 1
  /\ fetch.polls < 10
  /\ fetch.result.error # NULL

\* C34: when the last poll was answered with the success response of the
\* song route, the call has returned the URL of that response as its
\* filePath, without an error.
C34_SuccessReturned ==
  \A u \in OriginUrls :
    fetch.lastReply = <<SuccessBody(u)>>
      => /\ fetch.pc = "returned"
         /\ fetch.result.filePath = u
         /\ fetch.result.error = NULL

\* the keys of a Map and their insertion order
Keys(c) == {c[i].key : i \in 1..Len(c)}
KeyOrder(c) == [i \in 1..Len(c) |-> c[i].key]

\* a step of the cache driven on its own is a set call: a get leaves its
\* record in lastGet, a clear leaves the cache empty, Tick moves the clock
SetStep == lastGet' = NoGet /\ now' = now /\ cache' # <<>>

\* C35: a set call on a full cache that brings no new key (the key set
\* was already present) leaves the cache with the same set of keys.
C35_SetPresentKeepsKeys ==
  [][(/\ SetStep
      /\ Len(cache) >= maxSize
      /\ Keys(cache') \subseteq Keys(cache))
       => Keys(cache') = Keys(cache)]_vars

\* C36 as stated: when a set call that brings a new key into a full cache
\* evicts an entry, no entry that was present has an older timestamp than
\* the evicted one.
C36_Original ==
  [][(/\ SetStep
      /\ Len(cache) >= maxSize
      /\ Keys(cache') \ Keys(cache) # {})
       => \A i \in 1..Len(cache) :
            cache[i].key \notin Keys(cache')
              => \A j \in 1..Len(cache) :
                   cache[i].timestamp <= cache[j].timestamp]_vars

\* C36: an entry that a set call evicts is the first entry of the Map, the
\* one whose key was inserted earliest; a set call for a key that is present
\* in a cache below capacity leaves every key at its place in the insertion
\* order and stores the time of the call as the timestamp of the entries it
\* wrote, so the first entry need not carry the oldest timestamp.
C36_EvictsFirstInserted ==
  [][SetStep
       => /\ \A i \in 1..Len(cache) : cache[i].key \notin Keys(cache') => i = 1
          /\ (Len(cache) < maxSize /\ Keys(cache') = Keys(cache))
               => /\ KeyOrder(cache') = KeyOrder(cache)
                  /\ \A i \in 1..Len(cache) :
                       cache'[i] # cache[i] => cache'[i].timestamp = now]_vars

\* C36 witness: a key that was present has been set again at its place, so
\* the first entry of a full cache is newer than the entry after it.
C36_Witness ==
  /\ Len(cache) = maxSize
  /\ lastGet = NoGet
  /\ cache[1].timestamp > cache[2].timestamp

\* C37: a step of the handler or of the background task of a request for
\* one video id leaves every record of another video id as it was and
\* creates no record of another video id; a step of no request writes no
\* record.
C37_OtherKeysUntouched ==
  [][/\ \A r \in Reqs :
          (pc'[r] # pc[r] \/ bg'[r] # bg[r])
            => /\ Len(downloads') >= Len(downloads)
               /\ \A id \in 1..Len(downloads) :
                    downloads[id].youtubeId # req[r].videoId
                      => downloads'[id] = downloads[id]
               /\ \A id \in (Len(downloads) + 1)..Len(downloads') :
                    downloads'[id].youtubeId = req[r].videoId
     /\ (\A r \in Reqs : pc'[r] = pc[r] /\ bg'[r] = bg[r])
          => downloads' = downloads]_vars

\* C37 witness: the record of one video id has been promoted by the
\* background task of its request while the record of the other video id,
\* created earlier, is completed and carries no archive reference.
C37_Witness ==
  \E r \in Reqs, id1, id2 \in 1..Len(downloads) :
    /\ id2 < id1
    /\ bg[r] = "done"
    /\ req[r].download = id1
    /\ downloads[id1].youtubeId = req[r].videoId
    /\ downloads[id1].telegramFileId # NULL
    /\ downloads[id2].youtubeId # req[r].videoId
    /\ downloads[id2].status = "completed"
    /\ downloads[id2].telegramFileId = NULL

\* C38: the usageCount of every API key in the table is at most its
\* usageLimit.
C38_UsageWithinLimit ==
  \A k \in ApiKeys : apiKeysTable[k].usageCount <= apiKeysTable[k].usageLimit

====
